---- MODULE Spec2Model ----
(***************************************************************************)
(* Model of src/server.js: the room registry (rooms / users / drawings),   *)
(* the per-connection session (currentRoom / usernameServer) and the       *)
(* message and close handlers of the WebSocket server.                     *)
(*                                                                         *)
(* Node runs one handler to completion before the next, so every handler   *)
(* is one action.  A handler is written as a composition of operators on   *)
(* a store record S = [rooms, users, drawings, ready, sent] that mirror    *)
(* the functions of the source one to one; S.sent[c] is the sequence of    *)
(* envelopes the handler has sent to connection c so far.  OnMessage and   *)
(* OnClose give the whole outcome of a handler (final store and session);  *)
(* the actions apply them, and the properties read the envelopes from      *)
(* them.                                                                   *)
(***************************************************************************)
EXTENDS Integers, Sequences, FiniteSets, TLC

\* ------------------------------------------------------------------ bounds
\* A run whose clients all use one username stores at most MaxHist drawing
\* events, all rooms together; a run whose clients choose between two
\* usernames stores none (it sends chat and clear, and drawing messages for
\* rooms that are not registered).
MaxHist == 2

\* ------------------------------------------------------------- value sets
Conns == {"c1", "c2"}
RoomIds == {"r1", "r2"}
Names == {"alice", "bob"}
\* A field that is absent from a message, or a closure variable never set.
Undef == "undefined"

DrawingTypes == {"start", "draw"}
ShapeTypes == {"text", "rectangle", "circle", "clear"}
StoredTypes == {"start", "draw", "text", "rectangle", "circle"}
RelayTypes == {"chat"} \cup DrawingTypes \cup ShapeTypes
\* The drawing and shape messages the actions send: one stored type of each
\* of the two case groups, and clear.  The properties quantify over every
\* type above.
SentDrawingTypes == {"draw"}
SentShapeTypes == {"circle", "clear"}

VARIABLES
    rooms,          \* Map roomId -> Set<ws>
    users,          \* Map roomId -> Set<username>
    drawings,       \* Map roomId -> Array<drawingData>
    currentRoom,    \* per connection: closure variable currentRoom
    usernameServer, \* per connection: closure variable usernameServer
    readyState,     \* per connection: ws.readyState, OPEN or CLOSED
    nameChoice,     \* the usernames the clients of this run choose from
    handled         \* per room id: stored-type events handled for it since
                    \* it was created or last cleared (history variable)

vars == <<rooms, users, drawings, currentRoom, usernameServer, readyState,
          nameChoice, handled>>

\* ------------------------------------------------------------ Map helpers
MapSet(m, k, v) == [x \in (DOMAIN m) \cup {k} |-> IF x = k THEN v ELSE m[x]]

MapDelete(m, k) == [x \in (DOMAIN m) \ {k} |-> m[x]]

EmptyMap == [x \in {} |-> {}]

Truthy(v) == v # Undef

\* -------------------------------------------------------------- envelopes
\* Every envelope is a record of the same shape; a field an envelope does
\* not carry holds its default.  Free text derived from other fields (the
\* "message" of user_joined / user_left, chat text, timestamps, geometry)
\* is not modelled.
Env(t) ==
    [type |-> t, roomId |-> Undef, username |-> Undef, users |-> {},
     userCount |-> 0, drawings |-> <<>>, message |-> "", msg |-> ""]

\* Mutant: the envelope is dropped.
send_Dropped(S, client, env) == S

\* ws.send(JSON.stringify(env)) to one client
send(S, client, env) == [S EXCEPT !.sent[client] = Append(@, env)]

\* --------------------------------------------------------------- broadcast
\* Mutant: client.readyState is not looked at.
broadcastToRoom_AnyReadyState(S, room, env) ==
    IF room \notin DOMAIN S.rooms THEN S
    ELSE [S EXCEPT !.sent =
            [c \in Conns |->
                IF c \in S.rooms[room]
                THEN Append(S.sent[c], env) ELSE S.sent[c]]]

broadcastToRoom(S, room, env) ==
    IF room \notin DOMAIN S.rooms THEN S
    ELSE [S EXCEPT !.sent =
            [c \in Conns |->
                IF c \in S.rooms[room] /\ S.ready[c] = "OPEN"
                THEN Append(S.sent[c], env) ELSE S.sent[c]]]

\* Mutant: the sender is not skipped.
broadcastToRoomExcept_NoExclude(S, room, excludeWs, env) ==
    IF room \notin DOMAIN S.rooms THEN S
    ELSE [S EXCEPT !.sent =
            [c \in Conns |->
                IF c \in S.rooms[room] /\ S.ready[c] = "OPEN"
                THEN Append(S.sent[c], env) ELSE S.sent[c]]]

broadcastToRoomExcept(S, room, excludeWs, env) ==
    IF room \notin DOMAIN S.rooms THEN S
    ELSE [S EXCEPT !.sent =
            [c \in Conns |->
                IF c \in S.rooms[room] /\ c # excludeWs /\ S.ready[c] = "OPEN"
                THEN Append(S.sent[c], env) ELSE S.sent[c]]]

\* --------------------------------------------------------- room management
\* Mutant: the envelope is built from the room as it was before the joiner
\* was added.
addUserToRoom_AnnouncesOldRoom(S, ws, room, name) ==
    LET roomWs == S.rooms[room] \cup {ws}
        roomUsers == S.users[room] \cup {name}
        S1 == [S EXCEPT !.rooms[room] = roomWs, !.users[room] = roomUsers]
    IN  broadcastToRoom(S1, room,
            [Env("user_joined") EXCEPT
                !.drawings = S1.drawings[room],
                !.users = S.users[room],
                !.username = name,
                !.roomId = room,
                !.userCount = Cardinality(S.rooms[room])])

addUserToRoom(S, ws, room, name) ==
    LET roomWs == S.rooms[room] \cup {ws}
        roomUsers == S.users[room] \cup {name}
        S1 == [S EXCEPT !.rooms[room] = roomWs, !.users[room] = roomUsers]
    IN  broadcastToRoom(S1, room,
            [Env("user_joined") EXCEPT
                !.drawings = S1.drawings[room],
                !.users = roomUsers,
                !.username = name,
                !.roomId = room,
                !.userCount = Cardinality(roomWs)])

\* Mutant: user_left counts the members before the leaver is removed.
leaveRoom_CountsLeaver(S, ws, room, name) ==
    IF room \notin DOMAIN S.rooms THEN S
    ELSE LET roomWs == S.rooms[room] \ {ws}
             roomUsers == S.users[room] \ {name}
             S1 == [S EXCEPT !.rooms[room] = roomWs, !.users[room] = roomUsers]
         IN  IF roomWs = {} /\ roomUsers = {}
             THEN [S1 EXCEPT !.rooms = MapDelete(S1.rooms, room),
                             !.users = MapDelete(S1.users, room),
                             !.drawings = MapDelete(S1.drawings, room)]
             ELSE broadcastToRoomExcept(S1, room, ws,
                    [Env("user_left") EXCEPT
                        !.users = roomUsers,
                        !.username = name,
                        !.roomId = room,
                        !.userCount = Cardinality(S.rooms[room])])

\* Mutant: roomWs.delete(ws) is missing.
leaveRoom_KeepsMember(S, ws, room, name) ==
    IF room \notin DOMAIN S.rooms THEN S
    ELSE LET roomWs == S.rooms[room]
             roomUsers == S.users[room] \ {name}
             S1 == [S EXCEPT !.users[room] = roomUsers]
         IN  IF roomWs = {} /\ roomUsers = {}
             THEN [S1 EXCEPT !.rooms = MapDelete(S1.rooms, room),
                             !.users = MapDelete(S1.users, room),
                             !.drawings = MapDelete(S1.drawings, room)]
             ELSE broadcastToRoomExcept(S1, room, ws,
                    [Env("user_left") EXCEPT
                        !.users = roomUsers,
                        !.username = name,
                        !.roomId = room,
                        !.userCount = Cardinality(roomWs)])

leaveRoom(S, ws, room, name) ==
    IF room \notin DOMAIN S.rooms THEN S
    ELSE IF room \in DOMAIN S.rooms /\ room \in DOMAIN S.users
    THEN LET roomWs == S.rooms[room] \ {ws}
             roomUsers == S.users[room] \ {name}
             S1 == [S EXCEPT !.rooms[room] = roomWs, !.users[room] = roomUsers]
         IN  IF roomWs = {} /\ roomUsers = {}
             THEN [S1 EXCEPT !.rooms = MapDelete(S1.rooms, room),
                             !.users = MapDelete(S1.users, room),
                             !.drawings = MapDelete(S1.drawings, room)]
             ELSE broadcastToRoomExcept(S1, room, ws,
                    [Env("user_left") EXCEPT
                        !.users = roomUsers,
                        !.username = name,
                        !.roomId = room,
                        !.userCount = Cardinality(roomWs)])
    ELSE S

\* Mutant: creating a room that exists joins it.
handleCreateRoom_JoinsExisting(S, ws, room, name) ==
    IF ~Truthy(room) \/ ~Truthy(name)
    THEN send(S, ws, [Env("error") EXCEPT
                        !.message = "Missing room ID or username"])
    ELSE IF room \notin DOMAIN S.rooms
    THEN addUserToRoom(
            [S EXCEPT !.rooms = MapSet(S.rooms, room, {}),
                      !.users = MapSet(S.users, room, {}),
                      !.drawings = MapSet(S.drawings, room, <<>>)],
            ws, room, name)
    ELSE addUserToRoom(
            send(S, ws, [Env("room_already_exist") EXCEPT !.roomId = room]),
            ws, room, name)

handleCreateRoom(S, ws, room, name) ==
    IF ~Truthy(room) \/ ~Truthy(name)
    THEN send(S, ws, [Env("error") EXCEPT
                        !.message = "Missing room ID or username"])
    ELSE IF room \notin DOMAIN S.rooms
    THEN addUserToRoom(
            [S EXCEPT !.rooms = MapSet(S.rooms, room, {}),
                      !.users = MapSet(S.users, room, {}),
                      !.drawings = MapSet(S.drawings, room, <<>>)],
            ws, room, name)
    ELSE send(S, ws, [Env("room_already_exist") EXCEPT !.roomId = room])

\* Mutant: a username already in the room is turned away.
handleJoinRoom_RejectsDuplicate(S, ws, room, name) ==
    IF ~Truthy(room) \/ ~Truthy(name)
    THEN send(S, ws, [Env("error") EXCEPT
                        !.msg = "Missing room ID or username"])
    ELSE IF room \notin DOMAIN S.rooms \/ name \in S.users[room]
    THEN send(S, ws, Env("no_room"))
    ELSE addUserToRoom(S, ws, room, name)

handleJoinRoom(S, ws, room, name) ==
    IF ~Truthy(room) \/ ~Truthy(name)
    THEN send(S, ws, [Env("error") EXCEPT
                        !.msg = "Missing room ID or username"])
    ELSE IF room \notin DOMAIN S.rooms
    THEN send(S, ws, Env("no_room"))
    ELSE addUserToRoom(S, ws, room, name)

\* ---------------------------------------------------------------- drawing
\* data is the parsed message: [type, roomId] (geometry is opaque).
DataEnv(data) == [Env(data.type) EXCEPT !.roomId = data.roomId]

\* Mutant: the event is forwarded but not stored.
handleDrawing_NoPush(S, ws, data, room) ==
    IF room \notin DOMAIN S.drawings THEN S
    ELSE broadcastToRoomExcept(S, room, ws, DataEnv(data))

handleDrawing(S, ws, data, room) ==
    IF room \notin DOMAIN S.drawings THEN S
    ELSE LET S1 == IF Truthy(data.type)
                   THEN [S EXCEPT !.drawings[room] = Append(@, data)]
                   ELSE S
         IN  broadcastToRoomExcept(S1, room, ws, DataEnv(data))

\* Mutant: clear resets the history without looking whether the room has
\* one.
handleShape_ClearUnguarded(S, ws, data, room) ==
    IF room \notin DOMAIN S.drawings /\ data.type # "clear" THEN S
    ELSE LET S1 == IF data.type # "clear"
                   THEN [S EXCEPT !.drawings[room] = Append(@, data)]
                   ELSE [S EXCEPT !.drawings = MapSet(S.drawings, room, <<>>)]
         IN  broadcastToRoomExcept(S1, room, ws, DataEnv(data))

\* Mutant: clear is stored like a shape instead of resetting the history.
handleShape_StoresClear(S, ws, data, room) ==
    IF room \notin DOMAIN S.drawings THEN S
    ELSE broadcastToRoomExcept(
            [S EXCEPT !.drawings[room] = Append(@, data)],
            room, ws, DataEnv(data))

handleShape(S, ws, data, room) ==
    IF room \notin DOMAIN S.drawings THEN S
    ELSE LET S1 == IF data.type # "clear"
                   THEN [S EXCEPT !.drawings[room] = Append(@, data)]
                   ELSE [S EXCEPT !.drawings = MapSet(S.drawings, room, <<>>)]
         IN  broadcastToRoomExcept(S1, room, ws, DataEnv(data))

\* ----------------------------------------------------------------- state
NoneSent == [c \in Conns |-> <<>>]

\* The registry as a handler finds it: nothing sent yet.
Store ==
    [rooms |-> rooms, users |-> users, drawings |-> drawings,
     ready |-> readyState, sent |-> NoneSent]

\* A parsed message.  Fields a type does not read are Undef.
Msg(t, rid, un) == [type |-> t, roomId |-> rid, username |-> un]

Outcome(S, room, name, created) ==
    [S |-> S, room |-> room, name |-> name, created |-> created]

\* ---------------------------------------------------- ws.on('message', ...)
\* The session after the "if (data.roomId && data.username)" of both cases.
Adopt(c, data) ==
    IF Truthy(data.roomId) /\ Truthy(data.username)
    THEN [room |-> data.roomId, name |-> data.username]
    ELSE [room |-> currentRoom[c], name |-> usernameServer[c]]

\* The store after the "if (currentRoom) leaveRoom(...)" of both cases.
LeavePrior(c) ==
    IF Truthy(currentRoom[c])
    THEN leaveRoom(Store, c, currentRoom[c], usernameServer[c])
    ELSE Store

\* The drawing payload as it is stored and forwarded.
Payload(data) == [type |-> data.type, roomId |-> data.roomId]

\* Mutant: the default case takes the room from the message, as the relay
\* cases do.
OnMessage_DefaultTakesRoom(c, data) ==
    CASE data.type = "create_room" ->
            LET S1 == LeavePrior(c)
                ses == Adopt(c, data)
                S2 == handleCreateRoom(S1, c, ses.room, ses.name)
            IN  Outcome(S2, ses.room, ses.name,
                        (DOMAIN S2.rooms) \ (DOMAIN S1.rooms))
      [] data.type = "join_room" ->
            LET S1 == LeavePrior(c)
                ses == Adopt(c, data)
                S2 == handleJoinRoom(S1, c, ses.room, ses.name)
            IN  Outcome(S2, ses.room, ses.name, {})
      [] data.type = "chat" ->
            Outcome(broadcastToRoomExcept(Store, data.roomId, c,
                        [Env("chat") EXCEPT !.username = usernameServer[c]]),
                    data.roomId, usernameServer[c], {})
      [] data.type \in DrawingTypes ->
            Outcome(handleDrawing(Store, c, Payload(data), data.roomId),
                    data.roomId, usernameServer[c], {})
      [] data.type \in ShapeTypes ->
            Outcome(handleShape(Store, c, Payload(data), data.roomId),
                    data.roomId, usernameServer[c], {})
      [] data.type = "malformed" ->
            \* JSON.parse throws, or data.type is missing: the catch block
            Outcome(send(Store, c, [Env("error") EXCEPT
                                      !.message = "Invalid data format"]),
                    currentRoom[c], usernameServer[c], {})
      [] OTHER ->
            Outcome(Store, data.roomId, usernameServer[c], {})

\* The whole message handler of connection c on message `data`: the final
\* store, the session variables it leaves, and the rooms it created.
OnMessage(c, data) ==
    CASE data.type = "create_room" ->
            LET S1 == LeavePrior(c)
                ses == Adopt(c, data)
                S2 == handleCreateRoom(S1, c, ses.room, ses.name)
            IN  Outcome(S2, ses.room, ses.name,
                        (DOMAIN S2.rooms) \ (DOMAIN S1.rooms))
      [] data.type = "join_room" ->
            LET S1 == LeavePrior(c)
                ses == Adopt(c, data)
                S2 == handleJoinRoom(S1, c, ses.room, ses.name)
            IN  Outcome(S2, ses.room, ses.name, {})
      [] data.type = "chat" ->
            Outcome(broadcastToRoomExcept(Store, data.roomId, c,
                        [Env("chat") EXCEPT !.username = usernameServer[c]]),
                    data.roomId, usernameServer[c], {})
      [] data.type \in DrawingTypes ->
            Outcome(handleDrawing(Store, c, Payload(data), data.roomId),
                    data.roomId, usernameServer[c], {})
      [] data.type \in ShapeTypes ->
            Outcome(handleShape(Store, c, Payload(data), data.roomId),
                    data.roomId, usernameServer[c], {})
      [] data.type = "malformed" ->
            \* JSON.parse throws, or data.type is missing: the catch block
            Outcome(send(Store, c, [Env("error") EXCEPT
                                      !.message = "Invalid data format"]),
                    currentRoom[c], usernameServer[c], {})
      [] OTHER ->
            \* switch default: console.warn only
            Outcome(Store, currentRoom[c], usernameServer[c], {})

\* The close handler of connection c; readyState is CLOSED when it runs.
\* No handler of c runs after it, so its closure variables are dead: the
\* outcome drops them.
OnClose(c) ==
    LET S0 == [Store EXCEPT !.ready[c] = "CLOSED"]
    IN  Outcome(IF Truthy(currentRoom[c])
                THEN leaveRoom(S0, c, currentRoom[c], usernameServer[c])
                ELSE S0,
                Undef, Undef, {})

\* History variable, kept from the messages alone: the stored-type events
\* handled for room r since r was created or last cleared, after a handler
\* of message `data` that ended with registry `regAfter` and created the
\* rooms in `created`.
NextHandled(data, regAfter, created) ==
    [r \in RoomIds |->
        IF r \notin regAfter \/ r \in created THEN <<>>
        ELSE IF data.roomId = r /\ data.type = "clear" THEN <<>>
        ELSE IF data.roomId = r /\ data.type \in StoredTypes
        THEN Append(handled[r], [type |-> data.type, roomId |-> r])
        ELSE handled[r]]

\* Write a handler's outcome back.
Commit(c, R, data) ==
    /\ rooms' = R.S.rooms
    /\ users' = R.S.users
    /\ drawings' = R.S.drawings
    /\ readyState' = R.S.ready
    /\ currentRoom' = [currentRoom EXCEPT ![c] = R.room]
    /\ usernameServer' = [usernameServer EXCEPT ![c] = R.name]
    /\ handled' = NextHandled(data, DOMAIN R.S.rooms, R.created)
    /\ UNCHANGED nameChoice

Init ==
    /\ rooms = EmptyMap
    /\ users = EmptyMap
    /\ drawings = EmptyMap
    /\ currentRoom = [c \in Conns |-> Undef]
    /\ usernameServer = [c \in Conns |-> Undef]
    /\ readyState = [c \in Conns |-> "OPEN"]
    /\ nameChoice \in {{"alice"}, Names}
    /\ handled = [r \in RoomIds |-> <<>>]

\* ---------------------------------------------------------------- actions
\* What a roomId / username field of a message can hold.
MsgRooms == RoomIds \cup {Undef}
MsgNames == Names \cup {Undef}

RECURSIVE SumLen(_, _)
SumLen(m, ks) ==
    IF ks = {} THEN 0
    ELSE LET k == CHOOSE x \in ks : TRUE
         IN  Len(m[k]) + SumLen(m, ks \ {k})

HistBound == IF Cardinality(nameChoice) = 1 THEN MaxHist ELSE 0

\* The model stops storing at HistBound events in all.
HasSpace(rid) ==
    rid \in DOMAIN drawings => SumLen(drawings, DOMAIN drawings) < HistBound

\* Every message action needs an open connection: a closed one sends none.
Deliver(c, data) == Commit(c, OnMessage(c, data), data)

CreateRoom(c) ==
    /\ readyState[c] = "OPEN"
    /\ \E rid \in MsgRooms, un \in nameChoice \cup {Undef} :
        Deliver(c, Msg("create_room", rid, un))

JoinRoom(c) ==
    /\ readyState[c] = "OPEN"
    /\ \E rid \in MsgRooms, un \in nameChoice \cup {Undef} :
        Deliver(c, Msg("join_room", rid, un))

Chat(c) ==
    /\ readyState[c] = "OPEN"
    /\ \E rid \in MsgRooms : Deliver(c, Msg("chat", rid, Undef))

Drawing(c) ==
    /\ readyState[c] = "OPEN"
    /\ \E t \in SentDrawingTypes, rid \in MsgRooms :
        /\ HasSpace(rid)
        /\ Deliver(c, Msg(t, rid, Undef))

Shape(c) ==
    /\ readyState[c] = "OPEN"
    /\ \E t \in SentShapeTypes, rid \in MsgRooms :
        /\ t # "clear" => HasSpace(rid)
        /\ Deliver(c, Msg(t, rid, Undef))

Unknown(c) ==
    /\ readyState[c] = "OPEN"
    /\ Deliver(c, Msg("unknown", Undef, Undef))

Malformed(c) ==
    /\ readyState[c] = "OPEN"
    /\ Deliver(c, Msg("malformed", Undef, Undef))

Close(c) ==
    /\ readyState[c] = "OPEN"
    /\ Commit(c, OnClose(c), Msg("close", Undef, Undef))

\* ---------------------------------------------------------- specifications
Next ==
    \E c \in Conns :
        \/ CreateRoom(c)
        \/ JoinRoom(c)
        \/ Chat(c)
        \/ Drawing(c)
        \/ Shape(c)
        \/ Unknown(c)
        \/ Malformed(c)
        \/ Close(c)

Spec == Init /\ [][Next]_vars

\* Connections that only ever send create_room and join_room.
NextCJ ==
    \E c \in Conns :
        \/ CreateRoom(c)
        \/ JoinRoom(c)
        \/ Close(c)

SpecCJ == Init /\ [][NextCJ]_vars

\* ------------------------------------------------------------- properties
\* A property about "every message" is stated over every reachable state
\* and every message that can arrive in it: OnMessage(c, data) is the
\* handler's whole outcome, R.S the registry and R.S.sent the envelopes
\* after it, and the unprimed variables the state before it.
IsOpen(c) == readyState[c] = "OPEN"

JoinTypes == {"create_room", "join_room"}

\* How many envelopes of type t are in the sequence q.
Count(q, t) == Cardinality({i \in DOMAIN q : q[i].type = t})

MemberOf(c) == {r \in DOMAIN rooms : c \in rooms[r]}

AlreadyExist(r) == [Env("room_already_exist") EXCEPT !.roomId = r]

\* C1: a room whose last member has departed is no longer registered: no
\* registered room has an empty member set, and a join_room for an id that
\* is not registered is answered no_room, to the sender only.
C1_NoEmptyRoomRegistered ==
    /\ \A r \in DOMAIN rooms : rooms[r] # {}
    /\ \A c \in Conns : IsOpen(c) =>
        \A r \in RoomIds \ DOMAIN rooms, un \in Names :
            LET R == OnMessage(c, Msg("join_room", r, un))
            IN  /\ r \notin DOMAIN R.S.rooms
                /\ Count(R.S.sent[c], "no_room") = 1
                /\ \A d \in Conns \ {c} : Count(R.S.sent[d], "no_room") = 0

\* C2: once the close handler of a connection has run, the connection is
\* in the member set of no registered room, in that state and ever after.
C2_ClosedIsNowhere ==
    \A c \in Conns : readyState[c] = "CLOSED" => MemberOf(c) = {}

\* C3 as stated: create_room for a registered room r leaves r's members,
\* usernames and history as they were and sends room_already_exist to the
\* sender and nothing else, whatever room the sender is in.
C3_CreateExistingChangesNothing ==
    \A c \in Conns : IsOpen(c) =>
        \A r \in DOMAIN rooms, un \in Names :
            LET R == OnMessage(c, Msg("create_room", r, un))
            IN  /\ r \in DOMAIN R.S.rooms
                /\ R.S.rooms[r] = rooms[r]
                /\ R.S.users[r] = users[r]
                /\ R.S.drawings[r] = drawings[r]
                /\ R.S.sent = [NoneSent EXCEPT ![c] = <<AlreadyExist(r)>>]

\* C3 as amended: when the sender's session is not on r (currentRoom # r),
\* create_room with room id r (registered) and a username leaves r's
\* members, usernames and history as they were, the sender is sent exactly
\* room_already_exist, and every other envelope is a user_left about the
\* room the sender's session was on.
C3_CreateExistingOtherSession ==
    \A c \in Conns : IsOpen(c) =>
        \A r \in DOMAIN rooms, un \in Names :
            currentRoom[c] # r =>
            LET R == OnMessage(c, Msg("create_room", r, un))
            IN  /\ r \in DOMAIN R.S.rooms
                /\ R.S.rooms[r] = rooms[r]
                /\ R.S.users[r] = users[r]
                /\ R.S.drawings[r] = drawings[r]
                /\ R.S.sent[c] = <<AlreadyExist(r)>>
                /\ \A d \in Conns \ {c} : \A i \in DOMAIN R.S.sent[d] :
                    /\ R.S.sent[d][i].type = "user_left"
                    /\ R.S.sent[d][i].roomId = currentRoom[c]

\* C3 witness: a connection sitting in one room with a second member asks
\* to create the other room, which exists with a member and a history; it
\* is told room_already_exist and its old room mate is told user_left.
C3_Witness ==
    \E c \in Conns, d \in Conns, r \in DOMAIN rooms, un \in Names :
        /\ IsOpen(c) /\ IsOpen(d) /\ d # c
        /\ currentRoom[c] \in DOMAIN rooms /\ currentRoom[c] # r
        /\ {c, d} \subseteq rooms[currentRoom[c]]
        /\ rooms[r] # {} /\ drawings[r] # <<>>
        /\ LET R == OnMessage(c, Msg("create_room", r, un))
           IN  /\ R.S.sent[c] = <<AlreadyExist(r)>>
               /\ Count(R.S.sent[d], "user_left") = 1

\* C4: with connections that send only create_room and join_room (and
\* close), every connection is in the member set of at most one room after
\* each handler.
C4_SingleRoomCreateJoin ==
    \A c \in Conns : Cardinality(MemberOf(c)) <= 1

\* C4 witness: both rooms are registered, a connection that is a member of
\* one has its session on it, and the other room has the other member.
C4_Witness ==
    \E c \in Conns, d \in Conns :
        /\ c # d
        /\ DOMAIN rooms = RoomIds
        /\ MemberOf(c) = {"r2"} /\ currentRoom[c] = "r2"
        /\ MemberOf(d) = {"r1"}

\* C5: after messages of any type, every connection is in the member set
\* of at most one room.
C5_SingleRoomAnyMessage ==
    \A c \in Conns : \A r1 \in DOMAIN rooms, r2 \in DOMAIN rooms :
        c \in rooms[r1] /\ c \in rooms[r2] => r1 = r2

\* The join of c into r, with username un, succeeded.
JoinedBy(R, c, r, un) ==
    /\ r \in DOMAIN R.S.rooms
    /\ c \in R.S.rooms[r]
    /\ un \in R.S.users[r]
    /\ Count(R.S.sent[c], "user_joined") = 1
    /\ Count(R.S.sent[c], "no_room") = 0

\* C6 as stated: join_room with room id r and a username, r registered
\* when the message arrives, always succeeds.
C6_JoinExistingSucceeds ==
    \A c \in Conns : IsOpen(c) =>
        \A r \in DOMAIN rooms, un \in Names :
            JoinedBy(OnMessage(c, Msg("join_room", r, un)), c, r, un)

\* Leaving r, which the handler does first when the sender's session is on
\* r, deletes r: nobody and no username but the sender's would be left.
LeaveDeletes(c, r) ==
    /\ currentRoom[c] = r
    /\ rooms[r] \ {c} = {}
    /\ users[r] \ {usernameServer[c]} = {}

\* C6 as amended: join_room with room id r and a username, r registered
\* when the message arrives, succeeds unless the sender's session is on r
\* and leaving r deletes it (no other member, no other username).
C6_JoinSucceedsUnlessLeaveDeletes ==
    \A c \in Conns : IsOpen(c) =>
        \A r \in DOMAIN rooms, un \in Names :
            ~LeaveDeletes(c, r) =>
                JoinedBy(OnMessage(c, Msg("join_room", r, un)), c, r, un)

\* C6 witness: a member of r, with another member in r, joins r again
\* under a username already in use there, and is let in.
C6_Witness ==
    \E c \in Conns, d \in Conns, r \in DOMAIN rooms, un \in Names :
        /\ IsOpen(c) /\ d # c
        /\ currentRoom[c] = r /\ {c, d} \subseteq rooms[r]
        /\ un \in users[r] /\ un # usernameServer[c]
        /\ JoinedBy(OnMessage(c, Msg("join_room", r, un)), c, r, un)

\* C7: the drawings list of every user_joined envelope is the list of
\* start/draw/text/rectangle/circle events handled for that room since it
\* was created or last cleared, in the order they were handled.
C7_ReplayOnJoin ==
    \A c \in Conns : IsOpen(c) =>
        \A t \in JoinTypes, rid \in MsgRooms, un \in MsgNames :
            LET R == OnMessage(c, Msg(t, rid, un))
            IN  \A d \in Conns : \A i \in DOMAIN R.S.sent[d] :
                    LET e == R.S.sent[d][i]
                    IN  e.type = "user_joined" =>
                            e.drawings = IF e.roomId \in R.created THEN <<>>
                                         ELSE handled[e.roomId]

\* C7 witness: a room with two different events in its history is joined
\* by a connection that is not in it, which receives both, in order.
C7_Witness ==
    \E c \in Conns, r \in DOMAIN rooms :
        /\ IsOpen(c) /\ c \notin rooms[r]
        /\ Len(handled[r]) = 2 /\ handled[r][1].type # handled[r][2].type
        /\ LET R == OnMessage(c, Msg("join_room", r, "alice"))
           IN  /\ Len(R.S.sent[c]) = 1
               /\ R.S.sent[c][1].type = "user_joined"
               /\ R.S.sent[c][1].drawings = handled[r]

\* The handler sent c none of its three refusals.
NotRefused(R, c) ==
    /\ Count(R.S.sent[c], "error") = 0
    /\ Count(R.S.sent[c], "no_room") = 0
    /\ Count(R.S.sent[c], "room_already_exist") = 0

\* C8: the handler of a chat, start, draw, text, rectangle, circle or clear
\* message sends nothing to the sender; a create_room or join_room that is
\* not refused sends the sender exactly one user_joined.
C8_SelfExclusion ==
    \A c \in Conns : IsOpen(c) =>
        /\ \A t \in RelayTypes, rid \in MsgRooms :
            OnMessage(c, Msg(t, rid, Undef)).S.sent[c] = <<>>
        /\ \A t \in JoinTypes, rid \in MsgRooms, un \in MsgNames :
            LET R == OnMessage(c, Msg(t, rid, un))
            IN  NotRefused(R, c) =>
                    /\ Count(R.S.sent[c], "user_joined") = 1
                    /\ c \in R.S.rooms[R.room]

\* C8 witness: two open members of a room; a chat of one reaches the other
\* once and the sender not at all, and the sender's rejoin is announced to
\* both.
C8_Witness ==
    \E c \in Conns, d \in Conns, r \in DOMAIN rooms :
        /\ c # d /\ IsOpen(c) /\ IsOpen(d)
        /\ {c, d} \subseteq rooms[r]
        /\ LET R == OnMessage(c, Msg("chat", r, Undef))
           IN  Len(R.S.sent[d]) = 1 /\ R.S.sent[c] = <<>>
        /\ LET R == OnMessage(c, Msg("join_room", r, "alice"))
           IN  /\ Count(R.S.sent[c], "user_joined") = 1
               /\ Count(R.S.sent[d], "user_joined") = 1

\* C9: a chat, start, draw, text, rectangle, circle or clear message from a
\* connection that is not a member of the room its roomId names (or names
\* none) is delivered to nobody and changes no history.
C9_RelayOnlyInOwnRoom ==
    \A c \in Conns : IsOpen(c) =>
        \A t \in RelayTypes, rid \in MsgRooms :
            rid \notin MemberOf(c) =>
                LET R == OnMessage(c, Msg(t, rid, Undef))
                IN  R.S.sent = NoneSent /\ R.S.drawings = drawings

\* The outcome R of a handler leaves room r registered, removes none of its
\* usernames and tells none of its members user_left about r.
Untouched(R, r) ==
    /\ r \in DOMAIN R.S.rooms
    /\ users[r] \subseteq R.S.users[r]
    /\ \A d \in rooms[r] : \A i \in DOMAIN R.S.sent[d] :
        ~(R.S.sent[d][i].type = "user_left" /\ R.S.sent[d][i].roomId = r)

\* C10: no handler run for a connection c (a message of c, or its close)
\* removes a username from, deletes, or announces user_left in a room that
\* c is not a member of.
C10_NonMemberHarmless ==
    \A c \in Conns : IsOpen(c) =>
        \A r \in DOMAIN rooms :
            c \notin rooms[r] =>
                /\ Untouched(OnClose(c), r)
                /\ \A t \in JoinTypes \cup RelayTypes \cup {"unknown", "malformed"},
                      rid \in MsgRooms, un \in MsgNames :
                        Untouched(OnMessage(c, Msg(t, rid, un)), r)

InvalidData == [Env("error") EXCEPT !.message = "Invalid data format"]

\* The outcome R of a handler of connection c leaves the registry (members,
\* usernames and history of every room) and c's session as they were.
StateKept(R, c) ==
    /\ R.S.rooms = rooms
    /\ R.S.users = users
    /\ R.S.drawings = drawings
    /\ R.S.ready = readyState
    /\ R.room = currentRoom[c]
    /\ R.name = usernameServer[c]

\* C11: a message that cannot be parsed or has no type is answered with
\* exactly one {type: error, message: 'Invalid data format'} to the sender
\* and nothing to anyone else, and leaves the registry and every session
\* unchanged, so that what the sender sends next is handled from the same
\* state as if the bad message had not been sent.
C11_MalformedOnlyAnswered ==
    \A c \in Conns : IsOpen(c) =>
        LET R == OnMessage(c, Msg("malformed", Undef, Undef))
        IN  /\ R.S.sent = [NoneSent EXCEPT ![c] = <<InvalidData>>]
            /\ StateKept(R, c)
            /\ R.created = {}

\* C11 witness: a member of a room that has a second open member and a
\* history sends a malformed message; only the sender is answered.
C11_Witness ==
    \E c \in Conns, d \in Conns, r \in DOMAIN rooms :
        /\ c # d /\ IsOpen(c) /\ IsOpen(d)
        /\ {c, d} \subseteq rooms[r] /\ currentRoom[c] = r
        /\ drawings[r] # <<>>
        /\ LET R == OnMessage(c, Msg("malformed", Undef, Undef))
           IN  R.S.sent[c] = <<InvalidData>> /\ R.S.sent[d] = <<>>

\* The envelope the handler of c's message of relay type t for room rid
\* forwards.
Relayed(c, t, rid) ==
    IF t = "chat" THEN [Env("chat") EXCEPT !.username = usernameServer[c]]
    ELSE DataEnv(Payload(Msg(t, rid, Undef)))

\* The handler of a message or of the close of c first announces user_left
\* in the room c's session is on: the room is registered and somebody or
\* some username besides c's stays.
LeaveAnnounced(c) ==
    /\ currentRoom[c] \in DOMAIN rooms
    /\ ~LeaveDeletes(c, currentRoom[c])

\* Every connection got one envelope of type t if it is in `members` with
\* an open connection, and none otherwise.
OnePerOpenMember(R, t, members) ==
    \A d \in Conns :
        Count(R.S.sent[d], t) =
            IF d \in members /\ R.S.ready[d] = "OPEN" THEN 1 ELSE 0

\* No send failed into the catch block of the handler.
NoneCaught(R) ==
    \A d \in Conns : \A i \in DOMAIN R.S.sent[d] : R.S.sent[d][i] # InvalidData

\* C12: in every broadcast (chat, drawing, clear, user_joined, user_left)
\* each member of the target room with an open connection, the excluded
\* sender apart, gets exactly one copy and each member whose connection is
\* not open gets none, however many members are closed; the handler's
\* changes of membership and history take effect, and the sender is sent
\* no error for it.
C12_BroadcastReachesOpenMembers ==
    \A c \in Conns : IsOpen(c) =>
        /\ \A t \in RelayTypes, rid \in DOMAIN rooms :
            LET R == OnMessage(c, Msg(t, rid, Undef))
            IN  /\ \A d \in Conns :
                    R.S.sent[d] =
                        IF d \in rooms[rid] /\ d # c /\ IsOpen(d)
                        THEN <<Relayed(c, t, rid)>> ELSE <<>>
                /\ t \in StoredTypes =>
                    R.S.drawings[rid] =
                        Append(drawings[rid], Payload(Msg(t, rid, Undef)))
                /\ t = "clear" => R.S.drawings[rid] = <<>>
        /\ \A t \in JoinTypes, rid \in MsgRooms, un \in MsgNames :
            LET R == OnMessage(c, Msg(t, rid, un))
            IN  /\ NoneCaught(R)
                /\ LeaveAnnounced(c) =>
                    OnePerOpenMember(R, "user_left",
                                     rooms[currentRoom[c]] \ {c})
                /\ Truthy(R.room) /\ Truthy(R.name) /\ NotRefused(R, c) =>
                    /\ c \in R.S.rooms[R.room]
                    /\ R.name \in R.S.users[R.room]
                    /\ OnePerOpenMember(R, "user_joined", R.S.rooms[R.room])
        /\ LET R == OnClose(c)
           IN  /\ NoneCaught(R)
               /\ LeaveAnnounced(c) =>
                    /\ c \notin R.S.rooms[currentRoom[c]]
                    /\ OnePerOpenMember(R, "user_left",
                                        rooms[currentRoom[c]] \ {c})

\* C12 witness: a room has a member whose connection is closed; an open
\* connection joins it and gets the one user_joined, counting both, and
\* the closed member gets nothing.
C12_Witness ==
    \E c \in Conns, d \in Conns, r \in DOMAIN rooms :
        /\ c # d /\ IsOpen(c) /\ ~IsOpen(d)
        /\ d \in rooms[r] /\ c \notin rooms[r]
        /\ LET R == OnMessage(c, Msg("join_room", r, "alice"))
           IN  /\ Len(R.S.sent[c]) = 1
               /\ R.S.sent[c][1].type = "user_joined"
               /\ R.S.sent[c][1].userCount = 2
               /\ R.S.sent[d] = <<>>
               /\ R.S.rooms[r] = {c, d}

\* C13: a message with a type that is none of create_room, join_room, chat,
\* start, draw, text, rectangle, circle, clear has no envelope sent to
\* anyone, the sender included, and leaves the registry and every session
\* unchanged, whatever else it carries.
C13_UnknownTypeIgnored ==
    \A c \in Conns : IsOpen(c) =>
        \A rid \in MsgRooms, un \in MsgNames :
            LET R == OnMessage(c, Msg("unknown", rid, un))
            IN  /\ R.S.sent = NoneSent
                /\ StateKept(R, c)
                /\ R.created = {}

\* C13 witness: a member of a room with a second open member and a
\* history sends a message of unknown type that names the other room and
\* another username; nothing is sent and its session stays.
C13_Witness ==
    \E c \in Conns, d \in Conns, r \in DOMAIN rooms, r2 \in RoomIds :
        /\ c # d /\ IsOpen(c) /\ IsOpen(d) /\ r2 # r
        /\ {c, d} \subseteq rooms[r] /\ currentRoom[c] = r
        /\ usernameServer[c] = "alice"
        /\ drawings[r] # <<>>
        /\ LET R == OnMessage(c, Msg("unknown", r2, "bob"))
           IN  /\ R.S.sent = NoneSent
               /\ R.room = r /\ R.name = "alice"

\* C14: once every connection has closed the registry contains no room,
\* whatever messages the connections sent before.  A closed connection
\* has no further handler, so the state in which the last one has closed
\* is the state the registry keeps for ever.
C14_AllClosedNoRoom ==
    (\A c \in Conns : readyState[c] = "CLOSED") => DOMAIN rooms = {}

\* C15: every user_joined envelope, to whomever it goes, shows the room as
\* the join left it: userCount is the size of the member set with the
\* joiner in it, users is the room's username set and holds the joiner's
\* username, and the joiner is in the member set.  The handler is one
\* step, so the room the envelope is compared with is the room at the end
\* of the very handler that sent it.
C15_JoinedShowsUpdatedRoom ==
    \A c \in Conns : IsOpen(c) =>
        \A t \in JoinTypes, rid \in MsgRooms, un \in MsgNames :
            LET R == OnMessage(c, Msg(t, rid, un))
            IN  \A d \in Conns : \A i \in DOMAIN R.S.sent[d] :
                    LET e == R.S.sent[d][i]
                    IN  e.type = "user_joined" =>
                            /\ e.roomId = R.room /\ e.username = R.name
                            /\ e.roomId \in DOMAIN R.S.rooms
                            /\ c \in R.S.rooms[e.roomId]
                            /\ e.userCount = Cardinality(R.S.rooms[e.roomId])
                            /\ e.users = R.S.users[e.roomId]
                            /\ e.username \in e.users

\* C15 witness: a room with one open member, alice, is joined by the other
\* connection as bob; both get a user_joined that counts two members and
\* lists both usernames.
C15_Witness ==
    \E c \in Conns, d \in Conns, r \in DOMAIN rooms :
        /\ c # d /\ IsOpen(c) /\ IsOpen(d)
        /\ rooms[r] = {d} /\ users[r] = {"alice"}
        /\ LET R == OnMessage(c, Msg("join_room", r, "bob"))
           IN  \A x \in {c, d} :
                /\ Len(R.S.sent[x]) = 1
                /\ R.S.sent[x][1].type = "user_joined"
                /\ R.S.sent[x][1].userCount = 2
                /\ R.S.sent[x][1].users = {"alice", "bob"}

IsUserLeft(e) == e.type = "user_left"

\* The user_left envelopes the handler with outcome R sent to d, in order.
UserLeftTo(R, d) == SelectSeq(R.S.sent[d], IsUserLeft)

\* The handlers in which c departs the room its session is on: its close,
\* and every create_room and join_room (the room switch).
Departures(c) ==
    {OnClose(c)} \cup
    {OnMessage(c, Msg(t, rid, un)) :
        t \in JoinTypes, rid \in MsgRooms, un \in MsgNames}

\* C16: when a member c departs room r, by a room switch or by closing:
\* if r is left with no member and no username, r is deleted and nobody is
\* sent a user_left (a close sends nothing at all); otherwise each
\* remaining member with an open connection, and nobody else, is sent
\* exactly one user_left, whose userCount is the number of remaining
\* members and whose users is r's username set without c's username; c is
\* sent no user_left.
C16_DepartureAnnounced ==
    \A c \in Conns : IsOpen(c) =>
        \A r \in DOMAIN rooms :
            c \in rooms[r] /\ currentRoom[c] = r =>
            LET remaining == rooms[r] \ {c}
                names == users[r] \ {usernameServer[c]}
                left == [Env("user_left") EXCEPT
                            !.users = names,
                            !.username = usernameServer[c],
                            !.roomId = r,
                            !.userCount = Cardinality(remaining)]
            IN  /\ \A R \in Departures(c) :
                    IF remaining = {} /\ names = {}
                    THEN /\ r \notin DOMAIN R.S.rooms \/ r \in R.created
                         /\ \A d \in Conns : UserLeftTo(R, d) = <<>>
                    ELSE \A d \in Conns :
                            UserLeftTo(R, d) =
                                IF d \in remaining /\ IsOpen(d)
                                THEN <<left>> ELSE <<>>
                /\ remaining = {} /\ names = {} =>
                    OnClose(c).S.sent = NoneSent

\* C16 witness: alice and bob are the two members of a room, both open,
\* and alice's session is on it; when alice closes or switches to the
\* other room, bob is sent one user_left for one remaining member, bob.
C16_Witness ==
    \E c \in Conns, d \in Conns, r \in DOMAIN rooms, r2 \in RoomIds :
        /\ c # d /\ IsOpen(c) /\ IsOpen(d) /\ r2 # r
        /\ rooms[r] = {c, d} /\ currentRoom[c] = r
        /\ usernameServer[c] = "alice" /\ users[r] = {"alice", "bob"}
        /\ \A R \in {OnClose(c), OnMessage(c, Msg("join_room", r2, "alice"))} :
            /\ Len(UserLeftTo(R, d)) = 1
            /\ UserLeftTo(R, d)[1].userCount = 1
            /\ UserLeftTo(R, d)[1].users = {"bob"}
            /\ UserLeftTo(R, c) = <<>>

\* C17: after every handler, the username set of every registered room is
\* exactly the set of session usernames of its current members: each
\* member's username is in it, also when members share a username and one
\* of them leaves, and each username in it is that of a current member.
\* (Read on the rooms whose members all have an open connection: a closed
\* connection has no session left to compare with.)
C17_UsernamesAreMembersNames ==
    \A r \in DOMAIN rooms :
        (\A c \in rooms[r] : IsOpen(c)) =>
            users[r] = {usernameServer[c] : c \in rooms[r]}

\* Room r lives through the handler with outcome R: it is registered
\* before and after it and was not deleted and created anew within it.
LivesThrough(R, r) ==
    /\ r \in DOMAIN rooms
    /\ r \in DOMAIN R.S.rooms
    /\ r \notin R.created

\* The history of r after a handler of message `data` that r lives through.
HistoryAfter(data, r) ==
    IF data.roomId = r /\ data.type \in StoredTypes
    THEN Append(drawings[r], Payload(data))
    ELSE IF data.roomId = r /\ data.type = "clear" THEN <<>>
    ELSE drawings[r]

\* C18: while a room lives, a handler changes its history in one of three
\* ways only: a start, draw, text, rectangle or circle for the room appends
\* that one event after the earlier ones; a clear for the room empties it;
\* every other handler (create_room, join_room, chat, unknown or malformed
\* messages, a close or switch that leaves members behind, any message for
\* another room) leaves it as it was.
C18_HistoryAppendOrClear ==
    \A c \in Conns : IsOpen(c) =>
        \A r \in DOMAIN rooms :
            /\ \A t \in RelayTypes \cup {"unknown", "malformed"},
                  rid \in MsgRooms :
                    LET data == Msg(t, rid, Undef)
                        R == OnMessage(c, data)
                    IN  LivesThrough(R, r) =>
                            R.S.drawings[r] = HistoryAfter(data, r)
            /\ \A t \in JoinTypes, rid \in MsgRooms, un \in MsgNames :
                    LET data == Msg(t, rid, un)
                        R == OnMessage(c, data)
                    IN  LivesThrough(R, r) =>
                            R.S.drawings[r] = HistoryAfter(data, r)
            /\ LivesThrough(OnClose(c), r) =>
                    OnClose(c).S.drawings[r] = drawings[r]

\* C18 witness: a room with one event in its history and two open members:
\* a text for it makes the history two long with the old event first, a
\* clear empties it, and a chat, a rejoin and a close of one member leave
\* it as it was.
C18_Witness ==
    \E c \in Conns, d \in Conns, r \in DOMAIN rooms :
        /\ c # d /\ IsOpen(c) /\ IsOpen(d)
        /\ rooms[r] = {c, d} /\ currentRoom[c] = r
        /\ Len(drawings[r]) = 1
        /\ LET h == OnMessage(c, Msg("text", r, Undef)).S.drawings[r]
           IN  Len(h) = 2 /\ h[1] = drawings[r][1] /\ h[2].type = "text"
        /\ OnMessage(c, Msg("clear", r, Undef)).S.drawings[r] = <<>>
        /\ OnMessage(c, Msg("chat", r, Undef)).S.drawings[r] = drawings[r]
        /\ OnMessage(c, Msg("join_room", r, "alice")).S.drawings[r]
                = drawings[r]
        /\ OnClose(c).S.drawings[r] = drawings[r]

\* The rooms, users and drawings maps of store S have the same keys.
SameKeys(S) ==
    /\ DOMAIN S.rooms = DOMAIN S.users
    /\ DOMAIN S.users = DOMAIN S.drawings

\* C19: after every handler the rooms map, the users map and the drawings
\* map have exactly the same room ids as keys.
C19_RegistriesInStep == SameKeys(Store)

\* C19 witness: one room is registered, with a sole member and a history,
\* and the other is not; a clear for either room, the creation of the
\* other and the close of the member each leave the three maps with the
\* same keys: the room, the room, the other room alone, and none.
C19_Witness ==
    \E c \in Conns, r \in RoomIds, r2 \in RoomIds :
        /\ IsOpen(c) /\ r2 # r
        /\ DOMAIN rooms = {r} /\ DOMAIN users = {r} /\ DOMAIN drawings = {r}
        /\ rooms[r] = {c} /\ currentRoom[c] = r /\ drawings[r] # <<>>
        /\ DOMAIN OnMessage(c, Msg("clear", r, Undef)).S.drawings = {r}
        /\ DOMAIN OnMessage(c, Msg("clear", r2, Undef)).S.drawings = {r}
        /\ LET S == OnClose(c).S
           IN  SameKeys(S) /\ DOMAIN S.rooms = {}
        /\ LET S == OnMessage(c, Msg("create_room", r2, "alice")).S
           IN  SameKeys(S) /\ DOMAIN S.drawings = {r2}

====
